---- MODULE Spec2Model ----
(***************************************************************************)
(* Model of mayan/apps/file_caching/models.py: one Cache, its              *)
(* CachePartitions and CachePartitionFiles, the storage backend that holds *)
(* the bytes and the named-lock service, driven by concurrent callers.     *)
(***************************************************************************)
EXTENDS Integers, Sequences, FiniteSets, TLC

\* ------------------------------------------------------------------ bounds
MaxFiles == 2
MaxFileSize == 2
MaxMaximumSize == 2
MaxFaults == 1
MaximumPruneAttempts == 1

\* The concurrent callers: each may call create_file, and the callers in
\* Managers may also call File.delete, the purges and Cache.save.
Procs == { 1, 2 }

Managers == { 2 }

\* ------------------------------------------------------- the fixed entities
\* The primary key of the one Cache record.
CachePk == 1

\* The CachePartition records of the cache: (cache, name) is unique.
Partitions == { [pk |-> 1, name |-> "a"], [pk |-> 2, name |-> "a-b"] }

PartitionPks == { q.pk : q \in Partitions }

PartitionName(ppk) == (CHOOSE q \in Partitions : q.pk = ppk).name

Filenames == { "c", "b-c" }

\* The (partition, filename) pairs that callers address.
Triples == { << 1, "c" >>, << 1, "b-c" >>, << 2, "c" >> }

\* What a caller streams into a file: n bytes, each tagged with the writer.
Payload(p, n) == [i \in 1..n |-> p]

\* The absent CachePartitionFile (partition_file = None, no selection).
NoFile == [pk |-> 0, partition |-> 0, filename |-> "", datetime |-> 0,
           file_size |-> 0]

VARIABLES
    maximum_size,   \* Cache.maximum_size
    files,          \* the CachePartitionFile rows
    storage,        \* the storage backend: name -> bytes, for the names it holds
    locks,          \* the lock service: lock name -> holder, for the held locks
    clock,          \* the next primary key / creation time of a file row
    faults,         \* errors raised so far by the backend or by a caller
    proc,           \* each caller's operation, position and local variables
    last            \* the most recent call that returned, when calls are sequential

vars == << maximum_size, files, storage, locks, clock, faults, proc >>

\* ------------------------------------------------------------ pure helpers
get_combined_filename(parent, filename) == parent \o "-" \o filename

get_full_filename(ppk, filename) ==
    get_combined_filename(PartitionName(ppk), filename)

get_file_lock_name(ppk, filename) ==
    "cache_partition-file-" \o ToString(CachePk) \o "-" \o ToString(ppk)
        \o "-" \o filename

full_filename(f) == get_full_filename(f.partition, f.filename)

lock_manager_get_lock_name(f) == get_file_lock_name(f.partition, f.filename)

RECURSIVE SumSizes(_)
SumSizes(S) ==
    IF S = {} THEN 0
    ELSE LET f == CHOOSE x \in S : TRUE
         IN  f.file_size + SumSizes(S \ {f})

get_files == files

get_total_size == SumSizes(get_files)

\* Faulty variant of earliest: latest() in the place of earliest().
latest(S) == CHOOSE f \in S : \A g \in S : f.datetime >= g.datetime

earliest(S) == CHOOSE f \in S : \A g \in S : f.datetime <= g.datetime

partition_files(ppk) == { f \in files : f.partition = ppk }

RECURSIVE InPkOrder(_)
InPkOrder(S) ==
    IF S = {} THEN << >>
    ELSE LET f == CHOOSE x \in S : \A y \in S : x.pk <= y.pk
         IN  << f >> \o InPkOrder(S \ {f})

\* storage.delete(name): no error when the name is absent.
storage_delete(st, name) == [k \in (DOMAIN st) \ {name} |-> st[k]]

\* storage.save(name, content) and a stream's write.
storage_put(st, name, content) ==
    [k \in (DOMAIN st) \cup {name} |-> IF k = name THEN content ELSE st[k]]

\* ------------------------------------------------------------ lock service
LockFree(name) == name \notin DOMAIN locks

acquire_lock(p, name) ==
    [k \in (DOMAIN locks) \cup {name} |-> IF k = name THEN p ELSE locks[k]]

release(name) == [k \in (DOMAIN locks) \ {name} |-> locks[k]]

\* ------------------------------------------------------------ callers
IdleProc == [pc |-> "idle", op |-> "none", partition |-> 0, filename |-> "",
             sel |-> NoFile, attempts |-> 0, partition_file |-> NoFile,
             exc |-> "none", todo |-> << >>, ptodo |-> << >>,
             pruned |-> FALSE]

NoCall == [op |-> "none", partition |-> 0, filename |-> "", exc |-> "none"]

\* The operation of p is over: it returns to its caller (outcome "none") or
\* raises the exception. What it was called with stays known at "return".
Finish(p, outcome) ==
    proc' = [proc EXCEPT ![p] = [IdleProc EXCEPT !.pc = "return",
                 !.op = proc[p].op, !.partition = proc[p].partition,
                 !.filename = proc[p].filename,
                 !.partition_file = proc[p].partition_file,
                 !.pruned = proc[p].pruned,
                 !.exc = outcome]]

Goto(p, label) == proc' = [proc EXCEPT ![p].pc = label]

Init ==
    /\ maximum_size \in 1..MaxMaximumSize
    /\ files = {}
    /\ storage = << >>
    /\ locks = << >>
    /\ clock = 1
    /\ faults = 0
    /\ proc = [p \in Procs |-> IdleProc]
    /\ last = NoCall

\* Creations of file rows still possible: the rows ever created stay within
\* MaxFiles, counting the create_file calls in progress.
CreatesInProgress ==
    Cardinality({ q \in Procs : proc[q].op = "create"
                               /\ proc[q].partition_file = NoFile })

\* ------------------------------------------------ CachePartition.create_file
\* A caller enters create_file(filename) on a partition.
CallCreateFile(p) ==
    /\ proc[p].pc = "idle"
    /\ (clock - 1) + CreatesInProgress < MaxFiles
    /\ \E t \in Triples :
          proc' = [proc EXCEPT ![p] = [IdleProc EXCEPT !.pc = "cf_acquire",
                       !.op = "create", !.partition = t[1], !.filename = t[2]]]
    /\ UNCHANGED << maximum_size, files, storage, locks, clock, faults >>

\* Faulty variant of CreateFileAcquire: create_file goes on to the placeholder
\* without calling self.cache.prune().
CreateFileAcquireWithoutPrune(p) ==
    /\ proc[p].pc = "cf_acquire"
    /\ LockFree(get_file_lock_name(proc[p].partition, proc[p].filename))
    /\ locks' = acquire_lock(p,
                    get_file_lock_name(proc[p].partition, proc[p].filename))
    /\ proc' = [proc EXCEPT ![p].pc = "cf_storage_delete",
                            ![p].pruned = TRUE]
    /\ UNCHANGED << maximum_size, files, storage, clock, faults >>

\* acquire_lock(name=lock_name) succeeds.
CreateFileAcquire(p) ==
    /\ proc[p].pc = "cf_acquire"
    /\ LockFree(get_file_lock_name(proc[p].partition, proc[p].filename))
    /\ locks' = acquire_lock(p,
                    get_file_lock_name(proc[p].partition, proc[p].filename))
    /\ Goto(p, "prune")
    /\ UNCHANGED << maximum_size, files, storage, clock, faults >>

\* Faulty variant of CreateFileLockError: the placeholder's forced delete runs before
\* the lock is known to be held.
CreateFileLockErrorAfterDelete(p) ==
    /\ proc[p].pc = "cf_acquire"
    /\ ~LockFree(get_file_lock_name(proc[p].partition, proc[p].filename))
    /\ storage' = storage_delete(storage,
                      get_full_filename(proc[p].partition, proc[p].filename))
    /\ Finish(p, "LockError")
    /\ UNCHANGED << maximum_size, files, locks, clock, faults >>

\* acquire_lock raises LockError: logged and re-raised, nothing else is run.
CreateFileLockError(p) ==
    /\ proc[p].pc = "cf_acquire"
    /\ ~LockFree(get_file_lock_name(proc[p].partition, proc[p].filename))
    /\ Finish(p, "LockError")
    /\ UNCHANGED << maximum_size, files, storage, locks, clock, faults >>

\* self.cache.storage.delete(name=self.get_full_filename(filename=filename))
CreateFileStorageDelete(p) ==
    /\ proc[p].pc = "cf_storage_delete"
    /\ storage' = storage_delete(storage,
                      get_full_filename(proc[p].partition, proc[p].filename))
    /\ Goto(p, "cf_storage_save")
    /\ UNCHANGED << maximum_size, files, locks, clock, faults >>

\* self.cache.storage.save(name=..., content=ContentFile(content=''))
CreateFileStorageSave(p) ==
    /\ proc[p].pc = "cf_storage_save"
    /\ storage' = storage_put(storage,
                      get_full_filename(proc[p].partition, proc[p].filename),
                      << >>)
    /\ Goto(p, "cf_create")
    /\ UNCHANGED << maximum_size, files, locks, clock, faults >>

\* unique_together = ('partition', 'filename')
UniqueTogether(ppk, fn) ==
    \A f \in files : ~(f.partition = ppk /\ f.filename = fn)

\* partition_file = self.files.create(filename=filename): the row is inserted
\* with datetime = now and file_size = 0, or the insert violates the unique
\* constraint and raises, partition_file staying None.
CreateFileRecord(p) ==
    /\ proc[p].pc = "cf_create"
    /\ IF UniqueTogether(proc[p].partition, proc[p].filename)
       THEN LET row == [pk |-> clock, partition |-> proc[p].partition,
                        filename |-> proc[p].filename, datetime |-> clock,
                        file_size |-> 0]
            IN  /\ files' = files \cup {row}
                /\ clock' = clock + 1
                /\ proc' = [proc EXCEPT ![p].partition_file = row,
                                        ![p].pc = "cf_open"]
       ELSE /\ proc' = [proc EXCEPT ![p].exc = "IntegrityError",
                                    ![p].pc = "cf_cleanup"]
            /\ UNCHANGED << files, clock >>
    /\ UNCHANGED << maximum_size, storage, locks, faults >>

\* yield partition_file.open(mode='wb', _acquire_lock=False): the stream is
\* opened for writing, which creates or truncates the object.
CreateFileOpen(p) ==
    /\ proc[p].pc = "cf_open"
    /\ storage' = storage_put(storage, full_filename(proc[p].partition_file),
                              << >>)
    /\ Goto(p, "cf_write")
    /\ UNCHANGED << maximum_size, files, locks, clock, faults >>

\* The body of the caller's with block writes its bytes to the stream and
\* completes normally.
CallerWrite(p) ==
    /\ proc[p].pc = "cf_write"
    /\ \E n \in 1..MaxFileSize :
          storage' = storage_put(storage,
                         full_filename(proc[p].partition_file), Payload(p, n))
    /\ Goto(p, "cf_update_size")
    /\ UNCHANGED << maximum_size, files, locks, clock, faults >>

\* else: partition_file.close(_acquire_lock=False), then
\* partition_file.update_size(_acquire_lock=False): file_size is read from the
\* backend (which raises when the object is gone) and the row is saved; save()
\* updates the row with that pk and inserts it when no such row is left.
CreateFileUpdateSize(p) ==
    /\ proc[p].pc = "cf_update_size"
    /\ LET pf   == proc[p].partition_file
           name == full_filename(pf)
       IN  IF name \in DOMAIN storage
           THEN /\ files' = { f \in files : f.pk # pf.pk }
                              \cup { [pf EXCEPT !.file_size = Len(storage[name])] }
                /\ Goto(p, "cf_release")
           ELSE /\ proc' = [proc EXCEPT ![p].exc = "IOError",
                                        ![p].pc = "cf_release"]
                /\ UNCHANGED files
    /\ UNCHANGED << maximum_size, storage, locks, clock, faults >>

\* except Exception: partition_file.delete(_acquire_lock=False) when the row
\* was created, else the manual clean up of the empty storage file; raise.
CreateFileCleanup(p) ==
    /\ proc[p].pc = "cf_cleanup"
    /\ IF proc[p].partition_file # NoFile
       THEN /\ storage' = storage_delete(storage,
                              full_filename(proc[p].partition_file))
            /\ files' = { f \in files : f.pk # proc[p].partition_file.pk }
       ELSE /\ storage' = storage_delete(storage,
                     get_full_filename(proc[p].partition, proc[p].filename))
            /\ UNCHANGED files
    /\ Goto(p, "cf_release")
    /\ UNCHANGED << maximum_size, locks, clock, faults >>

\* Faulty variant of CreateFileRelease: the lock is released after the else clause
\* instead of in a finally clause, so only when nothing was raised.
CreateFileReleaseOnSuccess(p) ==
    /\ proc[p].pc = "cf_release"
    /\ locks' = IF proc[p].exc = "none"
                THEN release(get_file_lock_name(proc[p].partition,
                                                proc[p].filename))
                ELSE locks
    /\ Finish(p, proc[p].exc)
    /\ UNCHANGED << maximum_size, files, storage, clock, faults >>

\* finally: lock.release(); the call returns, or re-raises what was raised.
CreateFileRelease(p) ==
    /\ proc[p].pc = "cf_release"
    /\ locks' = release(get_file_lock_name(proc[p].partition, proc[p].filename))
    /\ Finish(p, proc[p].exc)
    /\ UNCHANGED << maximum_size, files, storage, clock, faults >>

\* The handler that an exception raised at a position reaches.
Handler(label) ==
    CASE label \in {"cf_open", "cf_write"} -> "cf_cleanup"
      [] label \in {"cf_storage_delete", "cf_storage_save",
                    "cf_update_size", "cf_cleanup"} -> "cf_release"
      [] label = "del_storage" -> "del_release"

\* A backend call (delete, save, open, close, size) or the body of the
\* caller's with block raises instead of completing.
RaiseError(p) ==
    /\ proc[p].pc \in {"cf_storage_delete", "cf_storage_save", "cf_open",
                       "cf_write", "cf_update_size", "cf_cleanup",
                       "del_storage"}
    /\ faults < MaxFaults
    /\ faults' = faults + 1
    /\ proc' = [proc EXCEPT ![p].exc = "IOError",
                            ![p].pc = Handler(proc[p].pc)]
    /\ UNCHANGED << maximum_size, files, storage, locks, clock >>

\* An exception leaves the operation of p: inside create_file it reaches the
\* finally clause that releases the file lock, elsewhere it ends the call.
Propagate(p, exception) ==
    IF proc[p].op = "create"
    THEN /\ proc' = [proc EXCEPT ![p].exc = exception, ![p].sel = NoFile,
                                 ![p].attempts = 0, ![p].pc = "cf_release"]
    ELSE Finish(p, exception)

\* Faulty variant of PruneTest: the loop test lets the cache stay one byte above its
\* maximum.
PruneTestOffByOne(p) ==
    /\ proc[p].pc = "prune"
    /\ IF get_total_size > maximum_size + 1
       THEN Goto(p, "prune_earliest")
       ELSE IF proc[p].op = "create"
            THEN /\ proc' = [proc EXCEPT ![p].pc = "cf_storage_delete",
                                         ![p].sel = NoFile,
                                         ![p].attempts = 0,
                                         ![p].pruned = TRUE]
            ELSE Finish(p, "none")
    /\ UNCHANGED << maximum_size, files, storage, locks, clock, faults >>

\* ------------------------------------------------------------- Cache.prune
\* while self.get_total_size() > self.maximum_size: the loop test. When it
\* fails prune returns: create_file goes on, Cache.save returns.
PruneTest(p) ==
    /\ proc[p].pc = "prune"
    /\ IF get_total_size > maximum_size
       THEN Goto(p, "prune_earliest")
       ELSE IF proc[p].op = "create"
            THEN /\ proc' = [proc EXCEPT ![p].pc = "cf_storage_delete",
                                         ![p].sel = NoFile,
                                         ![p].attempts = 0,
                                         ![p].pruned = TRUE]
            ELSE Finish(p, "none")
    /\ UNCHANGED << maximum_size, files, storage, locks, clock, faults >>

\* Faulty variant of PruneEarliest: the files whose lock is held are skipped
\* and the oldest of the others is selected.
PruneEarliestSkipLocked(p) ==
    /\ proc[p].pc = "prune_earliest"
    /\ LET unlocked == { f \in get_files :
                             LockFree(lock_manager_get_lock_name(f)) }
       IN  IF get_files = {}
           THEN Propagate(p, "DoesNotExist")
           ELSE /\ proc' = [proc EXCEPT
                       ![p].sel = IF unlocked # {} THEN earliest(unlocked)
                                  ELSE earliest(get_files),
                       ![p].pc = "del_acquire"]
    /\ UNCHANGED << maximum_size, files, storage, locks, clock, faults >>

\* cache_partition_file = self.get_files().earliest(), which raises
\* DoesNotExist when the cache has no file row.
PruneEarliest(p) ==
    /\ proc[p].pc = "prune_earliest"
    /\ IF get_files = {}
       THEN Propagate(p, "DoesNotExist")
       ELSE /\ proc' = [proc EXCEPT ![p].sel = earliest(get_files),
                                    ![p].pc = "del_acquire"]
    /\ UNCHANGED << maximum_size, files, storage, locks, clock, faults >>

\* ---------------------------------------------- CachePartitionFile.delete
\* @locked_class_method: the lock named by the file is acquired.
FileDeleteAcquire(p) ==
    /\ proc[p].pc = "del_acquire"
    /\ LockFree(lock_manager_get_lock_name(proc[p].sel))
    /\ locks' = acquire_lock(p, lock_manager_get_lock_name(proc[p].sel))
    /\ Goto(p, "del_storage")
    /\ UNCHANGED << maximum_size, files, storage, clock, faults >>

\* Faulty variant of FileDeleteLockError: prune raises once the count reaches
\* the setting (>= in the place of >).
FileDeleteLockErrorTooEarly(p) ==
    /\ proc[p].pc = "del_acquire"
    /\ ~LockFree(lock_manager_get_lock_name(proc[p].sel))
    /\ IF proc[p].op \in {"create", "save"}
       THEN IF proc[p].attempts + 1 >= MaximumPruneAttempts
            THEN Propagate(p, "RuntimeError")
            ELSE /\ proc' = [proc EXCEPT ![p].attempts = @ + 1,
                                         ![p].sel = NoFile,
                                         ![p].pc = "prune"]
       ELSE Finish(p, "LockError")
    /\ UNCHANGED << maximum_size, files, storage, locks, clock, faults >>

\* @locked_class_method: the lock is held and acquire_lock raises LockError.
\* prune counts the attempt and loops, or raises RuntimeError once the count
\* exceeds the setting; purge and a direct delete let LockError through.
FileDeleteLockError(p) ==
    /\ proc[p].pc = "del_acquire"
    /\ ~LockFree(lock_manager_get_lock_name(proc[p].sel))
    /\ IF proc[p].op \in {"create", "save"}
       THEN IF proc[p].attempts + 1 > MaximumPruneAttempts
            THEN Propagate(p, "RuntimeError")
            ELSE /\ proc' = [proc EXCEPT ![p].attempts = @ + 1,
                                         ![p].sel = NoFile,
                                         ![p].pc = "prune"]
       ELSE Finish(p, "LockError")
    /\ UNCHANGED << maximum_size, files, storage, locks, clock, faults >>

\* Faulty variant of FileDeleteStorage: the row is deleted before the backend
\* object.
FileDeleteRecordFirst(p) ==
    /\ proc[p].pc = "del_storage"
    /\ files' = { f \in files : f.pk # proc[p].sel.pk }
    /\ storage' = storage_delete(storage, full_filename(proc[p].sel))
    /\ Goto(p, "del_record")
    /\ UNCHANGED << maximum_size, locks, clock, faults >>

\* self.partition.cache.storage.delete(name=self.full_filename)
FileDeleteStorage(p) ==
    /\ proc[p].pc = "del_storage"
    /\ storage' = storage_delete(storage, full_filename(proc[p].sel))
    /\ Goto(p, "del_record")
    /\ UNCHANGED << maximum_size, files, locks, clock, faults >>

\* return super().delete(*args, **kwargs): the row with this pk is deleted.
FileDeleteRecord(p) ==
    /\ proc[p].pc = "del_record"
    /\ files' = { f \in files : f.pk # proc[p].sel.pk }
    /\ Goto(p, "del_release")
    /\ UNCHANGED << maximum_size, storage, locks, clock, faults >>

\* The decorator releases the lock; delete returns to prune's loop, to
\* purge's loop or to the caller, or lets the backend's exception through.
FileDeleteRelease(p) ==
    /\ proc[p].pc = "del_release"
    /\ locks' = release(lock_manager_get_lock_name(proc[p].sel))
    /\ IF proc[p].exc # "none"
       THEN Propagate(p, proc[p].exc)
       ELSE IF proc[p].op \in {"create", "save"}
            THEN /\ proc' = [proc EXCEPT ![p].sel = NoFile, ![p].pc = "prune"]
            ELSE IF proc[p].op \in {"partition_purge", "cache_purge"}
                 THEN /\ proc' = [proc EXCEPT ![p].sel = NoFile,
                                              ![p].pc = "purge_next"]
                 ELSE Finish(p, "none")
    /\ UNCHANGED << maximum_size, files, storage, clock, faults >>

\* A caller holding a file row (from get_file) calls its delete().
CallFileDelete(p) ==
    /\ p \in Managers
    /\ proc[p].pc = "idle"
    /\ \E f \in files :
          proc' = [proc EXCEPT ![p] = [IdleProc EXCEPT !.pc = "del_acquire",
                       !.op = "delete", !.partition = f.partition,
                       !.filename = f.filename, !.sel = f]]
    /\ UNCHANGED << maximum_size, files, storage, locks, clock, faults >>

\* ------------------------------------------------------ CachePartition.purge
\* for parition_file in self.files.all(): the rows are fetched once.
CallPartitionPurge(p) ==
    /\ p \in Managers
    /\ proc[p].pc = "idle"
    /\ \E ppk \in PartitionPks :
          proc' = [proc EXCEPT ![p] = [IdleProc EXCEPT !.pc = "purge_next",
                       !.op = "partition_purge", !.partition = ppk,
                       !.todo = InPkOrder(partition_files(ppk))]]
    /\ UNCHANGED << maximum_size, files, storage, locks, clock, faults >>

\* The next fetched row is deleted; after the last one purge returns, to the
\* caller or to Cache.purge's loop over the partitions.
PurgeNext(p) ==
    /\ proc[p].pc = "purge_next"
    /\ IF proc[p].todo # << >>
       THEN /\ proc' = [proc EXCEPT ![p].sel = Head(proc[p].todo),
                                    ![p].todo = Tail(proc[p].todo),
                                    ![p].pc = "del_acquire"]
       ELSE IF proc[p].op = "cache_purge"
            THEN Goto(p, "cache_purge_next")
            ELSE Finish(p, "none")
    /\ UNCHANGED << maximum_size, files, storage, locks, clock, faults >>

\* --------------------------------------------------------------- Cache.purge
\* DefinedStorage.get(name=self.defined_storage_name) raises KeyError for an
\* unknown storage and purge does nothing; else the partitions are fetched.
CallCachePurge(p) ==
    /\ p \in Managers
    /\ proc[p].pc = "idle"
    /\ \E defined \in BOOLEAN :
          proc' = [proc EXCEPT ![p] =
              IF defined
              THEN [IdleProc EXCEPT !.pc = "cache_purge_next",
                        !.op = "cache_purge", !.ptodo = InPkOrder(Partitions)]
              ELSE [IdleProc EXCEPT !.pc = "cache_purge_unknown",
                        !.op = "cache_purge"]]
    /\ UNCHANGED << maximum_size, files, storage, locks, clock, faults >>

\* Faulty variant of CachePurgeUnknown: the KeyError is swallowed and the
\* partitions are purged all the same.
CachePurgeUnknownPurges(p) ==
    /\ proc[p].pc = "cache_purge_unknown"
    /\ proc' = [proc EXCEPT ![p].pc = "cache_purge_next",
                            ![p].ptodo = InPkOrder(Partitions)]
    /\ UNCHANGED << maximum_size, files, storage, locks, clock, faults >>

\* except KeyError: unknown or deleted storage, must not be purged.
CachePurgeUnknown(p) ==
    /\ proc[p].pc = "cache_purge_unknown"
    /\ Finish(p, "none")
    /\ UNCHANGED << maximum_size, files, storage, locks, clock, faults >>

\* for partition in self.partitions.all(): partition.purge()
CachePurgeNext(p) ==
    /\ proc[p].pc = "cache_purge_next"
    /\ IF proc[p].ptodo # << >>
       THEN /\ proc' = [proc EXCEPT
                   ![p].partition = Head(proc[p].ptodo).pk,
                   ![p].ptodo = Tail(proc[p].ptodo),
                   ![p].todo = InPkOrder(partition_files(Head(proc[p].ptodo).pk)),
                   ![p].pc = "purge_next"]
       ELSE Finish(p, "none")
    /\ UNCHANGED << maximum_size, files, storage, locks, clock, faults >>

\* ---------------------------------------------------------------- Cache.save
\* Faulty variant of CallCacheSave: the configuration is saved and prune is
\* not run.
CallCacheSaveWithoutPrune(p) ==
    /\ p \in Managers
    /\ proc[p].pc = "idle"
    /\ \E m \in 1..MaxMaximumSize :
          maximum_size' = m
    /\ proc' = [proc EXCEPT ![p] = [IdleProc EXCEPT !.pc = "return",
                                                    !.op = "save"]]
    /\ UNCHANGED << files, storage, locks, clock, faults >>

\* result = super().save(*args, **kwargs); self.prune()
CallCacheSave(p) ==
    /\ p \in Managers
    /\ proc[p].pc = "idle"
    /\ \E m \in 1..MaxMaximumSize :
          maximum_size' = m
    /\ proc' = [proc EXCEPT ![p] = [IdleProc EXCEPT !.pc = "prune",
                                                    !.op = "save"]]
    /\ UNCHANGED << files, storage, locks, clock, faults >>

\* ------------------------------------------------------------ specification
\* The caller has its result: the call is over.
Return(p) ==
    /\ proc[p].pc = "return"
    /\ proc' = [proc EXCEPT ![p] = IdleProc]
    /\ UNCHANGED << maximum_size, files, storage, locks, clock, faults >>

\* Callers run concurrently, a step of one at a time.
Next ==
    \E p \in Procs :
        \/ CallCreateFile(p) /\ UNCHANGED last
        \/ CreateFileAcquire(p) /\ UNCHANGED last
        \/ CreateFileLockError(p) /\ UNCHANGED last
        \/ PruneTest(p) /\ UNCHANGED last
        \/ PruneEarliest(p) /\ UNCHANGED last
        \/ FileDeleteAcquire(p) /\ UNCHANGED last
        \/ FileDeleteLockError(p) /\ UNCHANGED last
        \/ FileDeleteStorage(p) /\ UNCHANGED last
        \/ FileDeleteRecord(p) /\ UNCHANGED last
        \/ FileDeleteRelease(p) /\ UNCHANGED last
        \/ CreateFileStorageDelete(p) /\ UNCHANGED last
        \/ CreateFileStorageSave(p) /\ UNCHANGED last
        \/ CreateFileRecord(p) /\ UNCHANGED last
        \/ CreateFileOpen(p) /\ UNCHANGED last
        \/ CallerWrite(p) /\ UNCHANGED last
        \/ CreateFileUpdateSize(p) /\ UNCHANGED last
        \/ CreateFileCleanup(p) /\ UNCHANGED last
        \/ CreateFileRelease(p) /\ UNCHANGED last
        \/ RaiseError(p) /\ UNCHANGED last
        \/ CallFileDelete(p) /\ UNCHANGED last
        \/ CallPartitionPurge(p) /\ UNCHANGED last
        \/ PurgeNext(p) /\ UNCHANGED last
        \/ CallCachePurge(p) /\ UNCHANGED last
        \/ CachePurgeUnknown(p) /\ UNCHANGED last
        \/ CachePurgeNext(p) /\ UNCHANGED last
        \/ CallCacheSave(p) /\ UNCHANGED last
        \/ Return(p) /\ UNCHANGED last

Spec == Init /\ [][Next]_vars

\* A step of prune's loop or of the File.delete it calls: the thread that
\* runs prune keeps running.
PruneStep(p) ==
    /\ proc[p].pc \in {"prune", "prune_earliest", "del_acquire", "del_storage",
                       "del_record", "del_release"}
    /\ \/ PruneTest(p)
       \/ PruneEarliest(p)
       \/ FileDeleteAcquire(p)
       \/ FileDeleteLockError(p)
       \/ FileDeleteStorage(p)
       \/ FileDeleteRecord(p)
       \/ FileDeleteRelease(p)
    /\ UNCHANGED last

\* Concurrent callers, none of which stops in the middle of prune.
SpecFair == Spec /\ \A p \in Procs : WF_vars(PruneStep(p))

\* No other caller is inside an operation.
Sequential(p) == \A q \in Procs \ {p} : proc[q].pc = "idle"

\* The result of the call that returns is kept as the most recent one.
Returned(p) ==
    [op |-> proc[p].op, partition |-> proc[p].partition,
     filename |-> proc[p].filename, exc |-> proc[p].exc]

\* Operations are called one at a time: a call starts when no other is in
\* progress. The file lock is then always free for create_file.
SeqNext ==
    \E p \in Procs :
        \/ Sequential(p) /\ CallCreateFile(p) /\ UNCHANGED last
        \/ CreateFileAcquire(p) /\ UNCHANGED last
        \/ PruneTest(p) /\ UNCHANGED last
        \/ PruneEarliest(p) /\ UNCHANGED last
        \/ FileDeleteAcquire(p) /\ UNCHANGED last
        \/ FileDeleteLockError(p) /\ UNCHANGED last
        \/ FileDeleteStorage(p) /\ UNCHANGED last
        \/ FileDeleteRecord(p) /\ UNCHANGED last
        \/ FileDeleteRelease(p) /\ UNCHANGED last
        \/ CreateFileStorageDelete(p) /\ UNCHANGED last
        \/ CreateFileStorageSave(p) /\ UNCHANGED last
        \/ CreateFileRecord(p) /\ UNCHANGED last
        \/ CreateFileOpen(p) /\ UNCHANGED last
        \/ CallerWrite(p) /\ UNCHANGED last
        \/ CreateFileUpdateSize(p) /\ UNCHANGED last
        \/ CreateFileCleanup(p) /\ UNCHANGED last
        \/ CreateFileRelease(p) /\ UNCHANGED last
        \/ RaiseError(p) /\ UNCHANGED last
        \/ Sequential(p) /\ CallFileDelete(p) /\ UNCHANGED last
        \/ Sequential(p) /\ CallPartitionPurge(p) /\ UNCHANGED last
        \/ PurgeNext(p) /\ UNCHANGED last
        \/ Sequential(p) /\ CallCachePurge(p) /\ UNCHANGED last
        \/ CachePurgeUnknown(p) /\ UNCHANGED last
        \/ CachePurgeNext(p) /\ UNCHANGED last
        \/ Sequential(p) /\ CallCacheSave(p) /\ UNCHANGED last
        \/ Return(p) /\ last' = Returned(p)

SpecSeq == Init /\ [][SeqNext]_vars

\* ------------------------------------------------------------------ claims
HasObject(ppk, fn) == get_full_filename(ppk, fn) \in DOMAIN storage

Rows(ppk, fn) == { f \in files : f.partition = ppk /\ f.filename = fn }

HoldsLock(p, name) == name \in DOMAIN locks /\ locks[name] = p

\* create_file of p is over (it returned or raised).
CreateOver(p) == proc[p].pc = "return" /\ proc[p].op = "create"

\* The size recorded for the row that the create_file call of p created, when
\* the call returned normally; 0 when it raised.
WrittenSize(p) ==
    IF proc[p].exc = "none"
    THEN SumSizes({ f \in files : f.pk = proc[p].partition_file.pk })
    ELSE 0

\* C1, as stated: with create_file called one call at a time, when a call is
\* over either total_size <= maximum_size or it raised the prune error.
C1_SizeBound ==
    \A p \in Procs :
        CreateOver(p) =>
            \/ get_total_size <= maximum_size
            \/ proc[p].exc = "RuntimeError"

\* C1, amended: with create_file called one call at a time, when a call is
\* over either total_size <= maximum_size + the size of the file it wrote
\* (nothing when it raised), or its prune pass raised (the prune error, or
\* the backend's error on a deletion of prune).
C1_SizeBoundUpToOwnFile ==
    \A p \in Procs :
        CreateOver(p) =>
            \/ get_total_size <= maximum_size + WrittenSize(p)
            \/ ~proc[p].pruned

\* A create_file call returned normally and left the cache above its maximum.
C1_Witness ==
    \E p \in Procs :
        /\ CreateOver(p)
        /\ proc[p].exc = "none"
        /\ get_total_size > maximum_size
        /\ get_total_size <= maximum_size + WrittenSize(p)

\* C2: when create_file(filename) raised, the backend holds no object at the
\* combined key of that filename and the partition has no row for it.
C2_Atomicity ==
    \A p \in Procs :
        (CreateOver(p) /\ proc[p].exc # "none") =>
            /\ ~HasObject(proc[p].partition, proc[p].filename)
            /\ Rows(proc[p].partition, proc[p].filename) = {}

\* A create_file or a File.delete for the pair is in progress.
InProgress(ppk, fn) ==
    \E q \in Procs :
        /\ proc[q].pc \notin {"idle", "return"}
        /\ \/ proc[q].op = "create" /\ proc[q].partition = ppk
                                     /\ proc[q].filename = fn
           \/ proc[q].sel # NoFile /\ proc[q].sel.partition = ppk
                                   /\ proc[q].sel.filename = fn

\* C3: while no create_file and no File.delete for a (partition, filename) is
\* in progress, a row for the pair exists iff the backend holds an object at
\* its combined key.
C3_RowIffObject ==
    \A t \in Triples :
        ~InProgress(t[1], t[2]) =>
            (Rows(t[1], t[2]) # {} <=> HasObject(t[1], t[2]))

\* C4: a create_file that follows a create_file of the same filename in the
\* same partition that returned normally returns normally too (no backend
\* call and no caller having raised), the object then holds exactly the bytes
\* this call wrote, and the name has exactly one row.
C4_OverwriteIsolation ==
    \A p \in Procs :
        ( /\ CreateOver(p)
          /\ faults = 0
          /\ last.op = "create" /\ last.exc = "none"
          /\ last.partition = proc[p].partition
          /\ last.filename = proc[p].filename ) =>
            /\ proc[p].exc = "none"
            /\ HasObject(proc[p].partition, proc[p].filename)
            /\ storage[get_full_filename(proc[p].partition, proc[p].filename)]
                   \in { Payload(p, n) : n \in 1..MaxFileSize }
            /\ Cardinality(Rows(proc[p].partition, proc[p].filename)) = 1

\* C5: a create_file that overlaps a create_file for the same filename in the
\* same partition (which holds the file lock) does not end with an error at
\* the lock acquisition, and the filename never has more than one row.
C5_SameNameWaits ==
    [][ /\ \A p \in Procs :
            (proc[p].pc = "cf_acquire" /\ proc'[p].pc = "return") =>
                ~ \E q \in Procs \ {p} :
                    /\ proc[q].op = "create"
                    /\ proc[q].partition = proc[p].partition
                    /\ proc[q].filename = proc[p].filename
                    /\ HoldsLock(q, get_file_lock_name(proc[q].partition,
                                                       proc[q].filename))
        /\ \A t \in Triples : Cardinality(Rows(t[1], t[2])') <= 1 ]_vars

\* C6: a create_file that ends while a create_file for another filename of
\* the same partition is in progress ends with neither a lock error nor a
\* prune error, and when it returns normally its object holds its own bytes
\* (no backend call and no caller having raised).
C6_DistinctNamesBothSucceed ==
    [][ \A p \in Procs :
          ( /\ proc[p].pc # "return" /\ proc'[p].pc = "return"
            /\ faults = 0
            /\ proc[p].op = "create"
            /\ \E q \in Procs \ {p} :
                  /\ proc[q].op = "create"
                  /\ proc[q].pc \notin {"idle", "return"}
                  /\ proc[q].partition = proc[p].partition
                  /\ proc[q].filename # proc[p].filename ) =>
              /\ proc'[p].exc \notin {"LockError", "RuntimeError"}
              /\ proc'[p].exc = "none" =>
                    /\ HasObject(proc[p].partition, proc[p].filename)'
                    /\ storage'[get_full_filename(proc[p].partition,
                                                  proc[p].filename)]
                           \in { Payload(p, n) : n \in 1..MaxFileSize } ]_vars

\* The caller that takes this step.
Acts(p) == proc'[p] # proc[p]

\* C7: the backend object at the combined key of an existing row is deleted or
\* overwritten only by a caller that holds the lock of that row's
\* (cache, partition, filename).
C7_TriplesIndependent ==
    [][ \A f \in files :
          ( /\ full_filename(f) \in DOMAIN storage
            /\ \/ full_filename(f) \notin DOMAIN storage'
               \/ storage'[full_filename(f)] # storage[full_filename(f)] ) =>
              \E p \in Procs :
                  Acts(p) /\ HoldsLock(p, lock_manager_get_lock_name(f)) ]_vars

\* C8: inside create_file, whose file lock the caller holds, File.delete never
\* goes to acquire the lock of the file being created.
C8_NoSecondAcquisition ==
    [][ \A p \in Procs :
          ( /\ proc[p].op = "create"
            /\ proc[p].pc = "del_acquire"
            /\ Acts(p) ) =>
              lock_manager_get_lock_name(proc[p].sel)
                  # get_file_lock_name(proc[p].partition, proc[p].filename)
      ]_vars

\* C9: a caller that is not inside an operation, or whose operation is over,
\* holds no lock: create_file released its file lock on every exit path.
C9_LockReleased ==
    \A p \in Procs :
        proc[p].pc \in {"idle", "return"} =>
            \A name \in DOMAIN locks : locks[name] # p

\* A create_file that had acquired its lock raised, and the lock is free.
C9_Witness ==
    \E p \in Procs :
        /\ CreateOver(p)
        /\ proc[p].exc \in {"IOError", "RuntimeError", "IntegrityError"}
        /\ LockFree(get_file_lock_name(proc[p].partition, proc[p].filename))

\* C10: the step of create_file at the lock acquisition, when the lock is
\* held, ends the call with LockError and changes nothing else.
C10_LockErrorNoEffect ==
    [][ \A p \in Procs :
          ( /\ proc[p].pc = "cf_acquire"
            /\ ~LockFree(get_file_lock_name(proc[p].partition,
                                            proc[p].filename))
            /\ Acts(p) ) =>
              /\ proc'[p].pc = "return"
              /\ proc'[p].exc = "LockError"
              /\ UNCHANGED << maximum_size, files, storage, locks, clock >> ]_vars

\* A create_file found its lock held and raised LockError.
C10_Witness ==
    \E p \in Procs : CreateOver(p) /\ proc[p].exc = "LockError"

\* The caller is inside prune (called by create_file or by Cache.save).
InPrune(p) == proc[p].op \in {"create", "save"}

\* C11: the file that prune selects is a row of the cache and has the
\* smallest datetime among all the rows of the cache, whatever their
\* partition.
C11_EvictionOrder ==
    [][ \A p \in Procs :
          ( /\ InPrune(p)
            /\ proc[p].pc = "prune_earliest"
            /\ proc'[p].pc = "del_acquire" ) =>
              /\ proc'[p].sel \in files
              /\ \A g \in files : proc'[p].sel.datetime <= g.datetime ]_vars

\* prune is deleting a file while a newer file of another partition exists.
C11_Witness ==
    \E p \in Procs :
        /\ InPrune(p)
        /\ proc[p].pc = "del_record"
        /\ \E g \in files : /\ g.partition # proc[p].sel.partition
                            /\ g.datetime > proc[p].sel.datetime


\* The rows that the purge of p fetched and has not deleted.
PurgeRemaining(p) ==
    { proc[p].sel } \cup { proc[p].todo[i] : i \in 1..Len(proc[p].todo) }

\* C12: when partition.purge() ends (no backend call having raised), also
\* while other operations hold locks of its files, none of the rows that the
\* partition owned when purge fetched them is left, and the backend holds no
\* object at the combined key of any of them.
C12_PurgeCompleteness ==
    [][ \A p \in Procs :
          ( /\ proc[p].op \in {"partition_purge", "cache_purge"}
            /\ proc[p].pc \in {"purge_next", "del_acquire", "del_release"}
            /\ proc'[p].pc \in {"return", "cache_purge_next"}
            /\ faults = 0 ) =>
              \A f \in PurgeRemaining(p) \ {NoFile} :
                  /\ f \notin files'
                  /\ full_filename(f) \notin DOMAIN storage' ]_vars


\* Cache.save of p is over and returned normally.
SaveReturned(p) ==
    proc[p].pc = "return" /\ proc[p].op = "save" /\ proc[p].exc = "none"

\* C13: with operations called one at a time, when Cache.save has returned
\* normally the total size is <= the maximum_size it saved.
C13_SaveEnforcesBound ==
    \A p \in Procs : SaveReturned(p) => get_total_size <= maximum_size

\* Cache.save returned normally and the file that the preceding create_file
\* had written is gone: the prune of save evicted it.
C13_Witness ==
    \E p \in Procs :
        /\ SaveReturned(p)
        /\ last.op = "create" /\ last.exc = "none"
        /\ Rows(last.partition, last.filename) = {}
        /\ get_total_size <= maximum_size


\* C14: with operations called one at a time, Cache.purge on a cache whose
\* storage cannot be resolved returns at once and leaves the rows and the
\* backend as they are; Cache.purge on a resolvable storage that returns
\* normally leaves no row in any partition of the cache.
C14_CachePurge ==
    [][ \A p \in Procs :
          /\ ( proc[p].pc = "cache_purge_unknown" /\ Acts(p) ) =>
                /\ proc'[p].pc = "return" /\ proc'[p].exc = "none"
                /\ UNCHANGED << files, storage >>
          /\ ( proc[p].pc = "idle" /\ proc'[p].pc = "cache_purge_unknown" ) =>
                UNCHANGED << files, storage >>
          /\ ( /\ proc[p].pc = "cache_purge_next"
               /\ proc'[p].pc = "return" /\ proc'[p].exc = "none" ) =>
                \A ppk \in PartitionPks : partition_files(ppk)' = {} ]_vars

\* Cache.purge found its storage unresolvable and returned while the cache
\* has rows and the backend has objects.
C14_Witness ==
    \E p \in Procs :
        /\ proc[p].pc = "return" /\ proc[p].op = "cache_purge"
        /\ proc[p].partition = 0
        /\ files # {}
        /\ DOMAIN storage # {}


\* C15: with operations called one at a time, when create_file has returned
\* normally total_size <= maximum_size + the size of the file it wrote.
C15_OvershootByOwnSize ==
    \A p \in Procs :
        (CreateOver(p) /\ proc[p].exc = "none") =>
            get_total_size <= maximum_size + WrittenSize(p)

\* create_file returned normally with the cache above its maximum while an
\* older file is still there.
C15_Witness ==
    \E p \in Procs :
        /\ CreateOver(p) /\ proc[p].exc = "none"
        /\ get_total_size > maximum_size
        /\ \E g \in files : g.datetime < proc[p].partition_file.datetime


\* The positions of prune's loop, and of the File.delete it calls.
PrunePcs == {"prune", "prune_earliest", "del_acquire", "del_storage",
             "del_record", "del_release"}

\* C16: with operations called one at a time (no backend call and no caller
\* having raised), prune deletes a file only while total_size > maximum_size,
\* the file it deletes is the oldest of the cache, and prune ends by returning
\* normally with total_size <= maximum_size.
C16_PruneShortestPrefix ==
    [][ \A p \in Procs :
          ( InPrune(p) /\ proc[p].pc \in PrunePcs /\ faults = 0 ) =>
              /\ ( proc[p].pc = "del_record" /\ Acts(p) ) =>
                    /\ get_total_size > maximum_size
                    /\ proc[p].sel = earliest(get_files)
                    /\ files' = files \ { proc[p].sel }
              /\ ( proc'[p].pc \notin PrunePcs ) =>
                    /\ proc'[p].exc = "none"
                    /\ get_total_size' <= maximum_size' ]_vars


\* A delete attempt of the prune of p fails with a lock error at this step.
PruneLockFailure(p) ==
    /\ InPrune(p)
    /\ proc[p].pc = "del_acquire"
    /\ ~LockFree(lock_manager_get_lock_name(proc[p].sel))
    /\ Acts(p)

\* C17: prune raises the fatal error exactly at the lock failure that makes
\* the failures of the call more than the configured maximum (failure number
\* maximum + 1); an earlier failure is counted and the loop goes on, and no
\* other step of the loop changes the count (a successful deletion does not
\* reset it).
C17_PruneAttempts ==
    [][ \A p \in Procs :
          /\ PruneLockFailure(p) =>
                IF proc[p].attempts = MaximumPruneAttempts
                THEN proc'[p].exc = "RuntimeError"
                ELSE /\ proc[p].attempts < MaximumPruneAttempts
                     /\ proc'[p].exc = "none"
                     /\ proc'[p].pc = "prune"
                     /\ proc'[p].attempts = proc[p].attempts + 1
          /\ ( proc'[p].exc = "RuntimeError" /\ proc[p].exc # "RuntimeError" )
                => PruneLockFailure(p)
          /\ ( /\ InPrune(p) /\ proc[p].pc \in PrunePcs
               /\ proc'[p].pc \in PrunePcs /\ ~PruneLockFailure(p) )
                => proc'[p].attempts = proc[p].attempts ]_vars

\* A prune ended with the fatal error.
C17_Witness ==
    \E p \in Procs : InPrune(p) /\ proc[p].exc = "RuntimeError"


\* The cache is above its maximum and the lock of its oldest file is held by
\* a caller other than p.
EarliestLockedByOther(p) ==
    /\ get_total_size > maximum_size
    /\ get_files # {}
    /\ \E q \in Procs \ {p} :
          HoldsLock(q, lock_manager_get_lock_name(earliest(get_files)))

C19_DeleteOrder ==
    [][ \A p \in Procs :
          ( Acts(p) /\ proc[p].pc \in {"del_storage", "del_record", "del_release"} )
          => /\ HoldsLock(p, lock_manager_get_lock_name(proc[p].sel))
             /\ ( proc[p].pc = "del_storage" ) =>
                   /\ files' = files
                   /\ IF proc'[p].pc = "del_record"
                      THEN /\ full_filename(proc[p].sel) \notin DOMAIN storage'
                           /\ proc'[p].exc = "none"
                      ELSE /\ proc'[p].pc = "del_release"
                           /\ proc'[p].exc = "IOError"
                           /\ storage' = storage
             /\ ( proc[p].pc = "del_record" ) =>
                   /\ storage' = storage
                   /\ files' = { f \in files : f.pk # proc[p].sel.pk }
                   /\ proc'[p].pc = "del_release"
             /\ ( proc[p].pc = "del_release" ) =>
                   /\ files' = files /\ storage' = storage
                   /\ proc[p].exc # "none" =>
                         /\ proc'[p].exc = proc[p].exc
                         /\ proc'[p].pc \in {"return", "cf_release"} ]_vars

\* The backend delete of a File.delete raised: the row and the object of the
\* file are still there.
C19_Witness ==
    \E p \in Procs :
        /\ proc[p].pc = "del_release"
        /\ proc[p].exc = "IOError"
        /\ proc[p].sel \in files
        /\ full_filename(proc[p].sel) \in DOMAIN storage


\* C20: in every interleaving, when prune has seen total_size > maximum_size
\* and selects the earliest file, the cache has at least one row, and prune
\* does not end with the lookup failure of earliest().
C20_EarliestExists ==
    [][ \A p \in Procs :
          ( InPrune(p) /\ proc[p].pc = "prune_earliest" /\ Acts(p) ) =>
              /\ get_files # {}
              /\ proc'[p].exc # "DoesNotExist" ]_vars


====
